---------------------------- MODULE Spec2Model ----------------------------
(***************************************************************************)
(* A model of the medical-invoice extraction service:                      *)
(*   src/invoice_extractor.py  InvoiceExtractor (document pipeline)         *)
(*   src/parser.py             JSONParser, ResponseValidator                *)
(*   src/schemas.py            ExtractedItem, PageResult, ExtractionResult  *)
(*   src/main.py               the endpoint and its request timeout         *)
(*                                                                         *)
(* Text is modelled as a sequence of one-character strings.  Amounts are   *)
(* Python floats in the code; here they are integers counting thousandths  *)
(* (1000 = 1.0), which is exact for every amount the model uses.           *)
(* An optional value (None / a value) is the empty / one-element sequence. *)
(***************************************************************************)
EXTENDS Integers, Sequences, FiniteSets, TLC

VARIABLES
    pc,             \* where the extraction (the worker thread) stands
    doc,            \* the document of the request: its kind and its non-blank pages
    batch_start,    \* extract_from_pdf: its loop variable i, the start of the batch
    fb,             \* extract_batch's fallback loop: position in the batch (1-based)
    results,        \* extract_batch's fallback loop: its results list
    all_page_items, \* extract_from_pdf: the page results collected so far
    result,         \* what extract_from_url returned, once it has
    status,         \* per page number: how the last call for the page ended
    elapsed,        \* half-seconds since the request started (saturating)
    calls,          \* model calls submitted for the request
    http,           \* the endpoint's side of the request
    unit,           \* one application of a pure function: its input and its output
    total_input_tokens,  \* the input counter of the one InvoiceExtractor
    total_output_tokens, \* its output counter
    credited,       \* what was added to the two counters since they were last reset
    requests,       \* the requests that have reached the executor
    thread          \* per thread of the executor: its request, seen from the counters

\* the state of the extraction of one request, and the state of the sessions
pipeline == << pc, doc, batch_start, fb, results, all_page_items, result, status, elapsed, calls, http, unit >>
session == << total_input_tokens, total_output_tokens, credited, requests, thread >>

vars == << pipeline, session >>

None == << >>
Some(x) == << x >>

(***************************************************************************)
(* Characters and strings                                                  *)
(***************************************************************************)
Digits == <<"0", "1", "2", "3", "4", "5", "6", "7", "8", "9">>
UpperSeq == <<"A", "B", "C", "D", "E", "F", "G", "H", "I", "J", "K", "L", "M", "N", "O", "P", "Q", "R", "S", "T", "U", "V", "W", "X", "Y", "Z">>
LowerSeq == <<"a", "b", "c", "d", "e", "f", "g", "h", "i", "j", "k", "l", "m", "n", "o", "p", "q", "r", "s", "t", "u", "v", "w", "x", "y", "z">>

Range(s) == { s[i] : i \in DOMAIN s }
IsDigit(c) == c \in Range(Digits)
DigitVal(c) == (CHOOSE i \in DOMAIN Digits : Digits[i] = c) - 1
\* str.isspace for the characters the model uses
Whitespace == {" ", "\t", "\n", "\r"}

\* str.lower, one character
LowerChar(c) ==
    IF c \in Range(UpperSeq)
    THEN LowerSeq[CHOOSE i \in DOMAIN UpperSeq : UpperSeq[i] = c]
    ELSE c
\* str.lower
Lower(s) == [i \in DOMAIN s |-> LowerChar(s[i])]

\* the suffix of s from position i (1-based); empty when i > Len(s)
From(s, i) == SubSeq(s, i, Len(s))

\* s.lstrip(chars): drop the longest prefix made of characters of cs
RECURSIVE LStrip(_, _)
LStrip(s, cs) ==
    IF s # << >> /\ Head(s) \in cs THEN LStrip(Tail(s), cs) ELSE s
\* s.rstrip(chars)
RECURSIVE RStrip(_, _)
RStrip(s, cs) ==
    IF s # << >> /\ s[Len(s)] \in cs THEN RStrip(SubSeq(s, 1, Len(s) - 1), cs) ELSE s
\* s.strip(chars); s.strip() is StripChars(s, Whitespace)
StripChars(s, cs) == RStrip(LStrip(s, cs), cs)
Strip(s) == StripChars(s, Whitespace)

\* kw in s  (Python substring test)
Contains(s, kw) ==
    \E i \in 0..(Len(s) - Len(kw)) : SubSeq(s, i + 1, i + Len(kw)) = kw

\* ' '.join(s.split()): whitespace runs collapse to one blank, none at the ends
RECURSIVE CollapseWs(_)
CollapseWs(s) ==
    LET t == LStrip(s, Whitespace) IN
    IF t = << >> THEN << >>
    ELSE LET n == CHOOSE k \in 1..Len(t) :
                     /\ \A j \in 1..k : t[j] \notin Whitespace
                     /\ (k = Len(t) \/ t[k + 1] \in Whitespace)
             rest == CollapseWs(From(t, n + 1))
         IN  IF rest = << >> THEN SubSeq(t, 1, n)
             ELSE SubSeq(t, 1, n) \o <<" ">> \o rest

\* s.replace(pat, ''), left to right, non-overlapping
RECURSIVE RemoveAll(_, _)
RemoveAll(s, pat) ==
    IF Len(s) < Len(pat) THEN s
    ELSE IF SubSeq(s, 1, Len(pat)) = pat THEN RemoveAll(From(s, Len(pat) + 1), pat)
    ELSE <<Head(s)>> \o RemoveAll(Tail(s), pat)

(***************************************************************************)
(* Numbers.  A numeric text is digits with at most one '.', at least one    *)
(* digit; its value is taken in thousandths.                               *)
(***************************************************************************)
RECURSIVE NatOf(_)
NatOf(s) == IF s = << >> THEN 0 ELSE NatOf(SubSeq(s, 1, Len(s) - 1)) * 10 + DigitVal(s[Len(s)])

\* digits '.' digits as accepted by float(): one dot at most, one digit at least
IsUnsignedNumber(s) ==
    /\ \A i \in DOMAIN s : IsDigit(s[i]) \/ s[i] = "."
    /\ Cardinality({i \in DOMAIN s : s[i] = "."}) <= 1
    /\ \E i \in DOMAIN s : IsDigit(s[i])

\* value in thousandths of an unsigned number text with at most 3 decimals
UnsignedValue(s) ==
    LET dots == {i \in DOMAIN s : s[i] = "."}
        d == IF dots = {} THEN Len(s) + 1 ELSE CHOOSE i \in dots : TRUE
        whole == SubSeq(s, 1, d - 1)
        frac == SubSeq(From(s, d + 1) \o <<"0", "0", "0">>, 1, 3)
    IN  NatOf(whole) * 1000 + NatOf(frac)

\* float(text): Some(value), or None where Python raises ValueError
PyFloat(s) ==
    LET t == Strip(s)
        neg == t # << >> /\ Head(t) = "-"
        body == IF t # << >> /\ Head(t) \in {"-", "+"} THEN Tail(t) ELSE t
    IN  IF IsUnsignedNumber(body)
        THEN Some(IF neg THEN 0 - UnsignedValue(body) ELSE UnsignedValue(body))
        ELSE None

\* round(x, 2) on thousandths (no amount of the model is an exact tie ..5)
Round2(v) == LET r == v % 10 IN IF r < 5 THEN v - r ELSE v - r + 10


\* str(n) for a page number
RECURSIVE ToStr(_)
ToStr(n) == IF n < 10 THEN <<Digits[n + 1]>> ELSE ToStr(n \div 10) \o <<Digits[(n % 10) + 1]>>

(***************************************************************************)
(* What json.loads yields for the parts of a response.  An element of      *)
(* bill_items is a mapping with a name and an amount, or not a mapping     *)
(* (kind "nonmap": a string, a number, null).  An amount is a JSON number  *)
(* (t "num", v in thousandths), a JSON string (t "str", s its text), JSON  *)
(* null (t "null") or absent (t "absent").                                 *)
(***************************************************************************)
Num(v) == [t |-> "num", v |-> v, s |-> << >>]
StrAmt(s) == [t |-> "str", v |-> 0, s |-> s]
NullAmt == [t |-> "null", v |-> 0, s |-> << >>]
AbsentAmt == [t |-> "absent", v |-> 0, s |-> << >>]
Item(n, a) == [kind |-> "map", name |-> n, amount |-> a]
NonMapItem == [kind |-> "nonmap", name |-> << >>, amount |-> NullAmt]

\* a function's outcome: it returned val, or an exception left it
Ret(x) == [raised |-> FALSE, val |-> x]
Raised == [raised |-> TRUE, val |-> None]

(***************************************************************************)
(* ResponseValidator (src/parser.py)                                       *)
(***************************************************************************)
skip_keywords ==
    { <<"t", "o", "t", "a", "l">>,
      <<"s", "u", "b", "t", "o", "t", "a", "l">>,
      <<"s", "u", "b", "-", "t", "o", "t", "a", "l">>,
      <<"g", "r", "a", "n", "d", " ", "t", "o", "t", "a", "l">>,
      <<"n", "e", "t", " ", "a", "m", "o", "u", "n", "t">>,
      <<"n", "e", "t", " ", "p", "a", "y", "a", "b", "l", "e">>,
      <<"a", "m", "o", "u", "n", "t", " ", "p", "a", "y", "a", "b", "l", "e">>,
      <<"d", "i", "s", "c", "o", "u", "n", "t">>,
      <<"t", "a", "x">>,
      <<"g", "s", "t">>,
      <<"c", "g", "s", "t">>,
      <<"s", "g", "s", "t">>,
      <<"i", "g", "s", "t">>,
      <<"a", "d", "v", "a", "n", "c", "e">>,
      <<"d", "e", "p", "o", "s", "i", "t">>,
      <<"a", "d", "j", "u", "s", "t", "m", "e", "n", "t">>,
      <<"b", "a", "l", "a", "n", "c", "e">>,
      <<"p", "a", "g", "e">>,
      <<"c", "o", "n", "t", "i", "n", "u", "e", "d">>,
      <<"h", "e", "a", "d", "e", "r">>,
      <<"f", "o", "o", "t", "e", "r">> }

min_name_length == 3

\* any(kw in name_lower for kw in self.skip_keywords)
MatchesSkipKeyword(name) == \E kw \in skip_keywords : Contains(Lower(name), kw)

\* re.sub(r'^[\d\.\-\)\]\s]+', '', name)
LeadingJunk == Range(Digits) \cup {".", "-", ")", "]"} \cup Whitespace
\* name.strip('.,;:-() ')
EdgePunct == {".", ",", ";", ":", "-", "(", ")", " "}

_clean_name(name) ==
    CollapseWs(StripChars(LStrip(name, LeadingJunk), EdgePunct))

\* re.search(r'[\d.]+', s).group(), or None when nothing matches
FirstNumberRun(s) ==
    LET NumCh(c) == IsDigit(c) \/ c = "."
        starts == {i \in DOMAIN s : NumCh(s[i])}
    IN  IF starts = {} THEN None
        ELSE LET a == CHOOSE i \in starts : \A j \in starts : i <= j
                 b == CHOOSE k \in a..Len(s) :
                          /\ \A j \in a..k : NumCh(s[j])
                          /\ (k = Len(s) \/ ~NumCh(s[k + 1]))
             IN  Some(SubSeq(s, a, b))

_parse_amount(value) ==
    CASE value.t \in {"null", "absent"} -> 0
      [] value.t = "num" -> value.v
      [] value.t = "str" ->
            LET s == Strip(RemoveAll(RemoveAll(RemoveAll(value.s, <<",">>),
                                               <<"R", "s", ".">>), <<"R", "s">>))
                m == FirstNumberRun(s)
            IN  IF m = None THEN 0
                ELSE IF PyFloat(m[1]) = None THEN 0 ELSE PyFloat(m[1])[1]

\* item.get('item_amount', item.get('amount', 0)): an absent amount reads as 0
AmountOrDefault(item) == IF item.amount.t = "absent" THEN Num(0) ELSE item.amount

\* the cleaned item, or None when the item is skipped (item is a mapping)
_validate_item(item) ==
    LET name == Strip(item.name)
        amount == _parse_amount(AmountOrDefault(item))
    IN  IF Len(name) < min_name_length THEN None
        ELSE IF MatchesSkipKeyword(name) THEN None
        ELSE IF amount <= 0 THEN None
        ELSE Some([item_name |-> _clean_name(name), item_amount |-> Round2(amount)])

RECURSIVE CleanedItems(_)
CleanedItems(items) ==
    IF items = << >> THEN << >>
    ELSE LET c == _validate_item(Head(items)) IN c \o CleanedItems(Tail(items))

\* data: a mapping with page_type and bill_items; item.get on a non-mapping raises
validate_and_clean(data) ==
    IF \E i \in DOMAIN data.items : data.items[i].kind = "nonmap" THEN Raised
    ELSE Ret([page_type |-> IF data.page_type = None THEN "Bill Detail" ELSE data.page_type[1],
              bill_items |-> CleanedItems(data.items)])

(***************************************************************************)
(* ExtractedItem.clean_item_name (src/schemas.py): raises on an empty      *)
(* name and on a name shorter than 2 after cleaning.                       *)
(***************************************************************************)
clean_item_name(v) ==
    LET w == StripChars(LStrip(CollapseWs(v), Range(Digits) \cup {".", "-"} \cup Whitespace),
                        EdgePunct)
    IN  IF v = << >> THEN Raised
        ELSE IF Len(w) < 2 THEN Raised
        ELSE Ret(w)


(***************************************************************************)
(* The text of a model response, by its syntax.                            *)
(*   shape  "object": one page object {"page_no":..,"page_type":..,        *)
(*                    "bill_items":[..]};                                  *)
(*          "array" : a JSON array of page objects;                        *)
(*          "empty" : no text; "prose": text with no JSON in it.           *)
(*   pages  the page objects, each with its optional page_no label, its    *)
(*          optional page_type label and its complete elements of          *)
(*          bill_items; inside an item object item_name comes before       *)
(*          item_amount, as in both prompts' formats.                      *)
(*   cut    None for a complete document; Some(c) for a text that stops    *)
(*          inside one more item of the last page, with no closing         *)
(*          bracket after it:                                              *)
(*            c.stage "key" : it stops inside the item_name key or value;  *)
(*                    "name": the name is complete, no amount digit yet;   *)
(*                    "amt" : it stops after the digits c.digits of the    *)
(*                            amount (all of them or only the first; a     *)
(*                            number text float() accepts).                *)
(***************************************************************************)
Page(no, type, items) == [page_no |-> no, page_type |-> type, items |-> items]
Text(shape, pages, cut) == [shape |-> shape, pages |-> pages, cut |-> cut]
Cut(stage, name, digits) == [stage |-> stage, name |-> name, digits |-> digits]
EmptyText == Text("empty", << >>, None)
ProseText == Text("prose", << >>, None)

\* a page of a result
PageOut(no, type, items) == [page_no |-> no, page_type |-> type, bill_items |-> items]
BillItem(n, a) == [item_name |-> n, item_amount |-> a]

\* a text that answers in prose and then gives one page object in a markdown
\* code block (```json ... ```)
FencedText(page) == Text("fenced", <<page>>, None)
\* a text of brackets nested deeper than the recursion limit of the interpreter
DeepText == Text("deep", << >>, None)
\* the part of a text from its first '{' to its last '}', as a text
ObjectOf(text) == Text("object", text.pages, text.cut)

\* json.loads(text) succeeds
IsJson(text) == text.shape \in {"object", "array"} /\ text.cut = None

(***************************************************************************)
(* InvoiceExtractor.format_result (src/invoice_extractor.py)               *)
(***************************************************************************)
valid_types == {"Bill Detail", "Final Bill", "Pharmacy"}

\* item.get on a non-mapping raises AttributeError; float() of a non-numeric
\* string raises ValueError, of null TypeError
FormatItemRaises(item) ==
    \/ item.kind = "nonmap"
    \/ item.amount.t = "null"
    \/ item.amount.t = "str" /\ PyFloat(item.amount.s) = None

\* float(item.get("item_amount", 0))
FormatAmount(item) ==
    CASE item.amount.t = "absent" -> 0
      [] item.amount.t = "num" -> item.amount.v
      [] item.amount.t = "str" -> PyFloat(item.amount.s)[1]

RECURSIVE FormatItems(_)
FormatItems(items) ==
    IF items = << >> THEN << >>
    ELSE LET name == Strip(Head(items).name)
             amount == FormatAmount(Head(items))
         IN  (IF name # << >> /\ amount > 0 THEN <<BillItem(name, amount)>> ELSE << >>)
             \o FormatItems(Tail(items))

format_result(data) ==
    LET raw == IF data.page_type = None THEN "Bill Detail" ELSE data.page_type[1]
        type == IF raw \notin valid_types THEN "Bill Detail" ELSE raw
    IN  IF \E i \in DOMAIN data.items : FormatItemRaises(data.items[i]) THEN Raised
        ELSE LET items == FormatItems(data.items)
             IN  Ret(IF items = << >> THEN None ELSE Some(PageOut(<<"1">>, type, items)))

(***************************************************************************)
(* InvoiceExtractor.salvage_partial_json: what its regular expressions     *)
(* find in a text                                                          *)
(***************************************************************************)
\* "item_name"\s*:\s*"([^"]+)" matches a string name of one character at least
NameFound(item) == item.kind = "map" /\ item.name # << >>
\* "item_amount"\s*:\s*([\d.]+) matches a number literal with no sign
AmountFound(item) == item.kind = "map" /\ item.amount.t = "num" /\ item.amount.v >= 0

RECURSIVE AllItems(_)
AllItems(pages) ==
    IF pages = << >> THEN << >> ELSE Head(pages).items \o AllItems(Tail(pages))

\* Strategy 1: the complete item objects with a name and then an amount
RECURSIVE CompleteItems(_)
CompleteItems(items) ==
    IF items = << >> THEN << >>
    ELSE LET it == Head(items)
             name == Strip(it.name)
         IN  (IF NameFound(it) /\ AmountFound(it) /\ name # << >> /\ it.amount.v > 0
              THEN <<BillItem(name, it.amount.v)>> ELSE << >>)
             \o CompleteItems(Tail(items))

\* Strategy 3: every name and every amount of the text, complete object or not
RECURSIVE NamesIn(_)
NamesIn(items) ==
    IF items = << >> THEN << >>
    ELSE (IF NameFound(Head(items)) THEN <<Head(items).name>> ELSE << >>)
         \o NamesIn(Tail(items))
RECURSIVE AmountsIn(_)
AmountsIn(items) ==
    IF items = << >> THEN << >>
    ELSE (IF AmountFound(Head(items)) THEN <<Head(items).amount.v>> ELSE << >>)
         \o AmountsIn(Tail(items))

CutName(text) ==
    IF text.cut # None /\ text.cut[1].stage \in {"name", "amt"} /\ text.cut[1].name # << >>
    THEN <<text.cut[1].name>> ELSE << >>
\* float() of the digits before the cut
CutAmount(text) ==
    IF text.cut # None /\ text.cut[1].stage = "amt"
    THEN PyFloat(text.cut[1].digits) ELSE << >>

RECURSIVE PairUp(_, _)
PairUp(names, amounts) ==
    IF names = << >> \/ amounts = << >> THEN << >>
    ELSE (IF Strip(Head(names)) # << >> /\ Head(amounts) > 0
          THEN <<BillItem(Strip(Head(names)), Head(amounts))>> ELSE << >>)
         \o PairUp(Tail(names), Tail(amounts))

\* re.search(r'"page_type"\s*:\s*"([^"]+)"', text): the first label of the text
RECURSIVE FirstPageType(_)
FirstPageType(pages) ==
    IF pages = << >> THEN None
    ELSE IF Head(pages).page_type # None /\ Head(pages).page_type[1] # ""
         THEN Head(pages).page_type
         ELSE FirstPageType(Tail(pages))

\* a salvage whose Strategy 3 runs whether or not Strategy 1 found items
salvage_partial_json_always_3(text) ==
    LET all == AllItems(text.pages)
        bill_items == CompleteItems(all) \o PairUp(CutName(text), CutAmount(text))
        label == FirstPageType(text.pages)
    IN  IF bill_items = << >> THEN None
        ELSE Some(PageOut(<<"1">>, IF label = None THEN "Bill Detail" ELSE label[1],
                          bill_items))

salvage_partial_json(text) ==
    LET all == AllItems(text.pages)
        found == CompleteItems(all)
        bill_items == IF found # << >> THEN found
                      ELSE PairUp(NamesIn(all) \o CutName(text),
                                  AmountsIn(all) \o CutAmount(text))
        label == FirstPageType(text.pages)
    IN  IF bill_items = << >> THEN None
        ELSE Some(PageOut(<<"1">>, IF label = None THEN "Bill Detail" ELSE label[1],
                          bill_items))

(***************************************************************************)
(* InvoiceExtractor.parse_llm_response: the text from the first '{' to the *)
(* last '}' is parsed; a JSONDecodeError goes to the salvage, any other    *)
(* exception gives None: the RecursionError of json.loads on a text nested *)
(* too deep, and what format_result raises.  Of a text with a code block   *)
(* the object inside the block is parsed.                                  *)
(***************************************************************************)
parse_llm_response(text) ==
    IF text.shape = "deep" THEN None
    ELSE IF text.shape = "fenced"
    THEN LET r == format_result(text.pages[1])
         IN  IF r.raised THEN None ELSE r.val
    ELSE IF IsJson(text) /\ (text.shape = "object" \/ Len(text.pages) = 1)
    THEN LET r == format_result(text.pages[1])
         IN  IF r.raised THEN None ELSE r.val
    ELSE IF IsJson(text) /\ text.pages = << >> THEN None
    ELSE salvage_partial_json(text)


(***************************************************************************)
(* InvoiceExtractor.parse_batch_response and salvage_batch_response        *)
(***************************************************************************)
\* str(page_nums[i] if i < len(page_nums) else i + 1), i counted from 1 here
DefaultPageNo(page_nums, i) == ToStr(IF i <= Len(page_nums) THEN page_nums[i] ELSE i)

RECURSIVE FormatPages(_, _, _)
FormatPages(pages, page_nums, i) ==
    IF i > Len(pages) THEN << >>
    ELSE LET r == format_result(pages[i])
             no == IF pages[i].page_no # None THEN pages[i].page_no[1]
                   ELSE DefaultPageNo(page_nums, i)
         IN  (IF r.val = None THEN << >> ELSE <<[r.val[1] EXCEPT !.page_no = no]>>)
             \o FormatPages(pages, page_nums, i + 1)

\* \{\s*"page_no"\s*:\s*"?(\d+)"?\s*,\s*"page_type"\s*:\s*"([^"]+)" matches the page
PageHeaderFound(page) ==
    /\ page.page_no # None
    /\ page.page_no[1] # << >>
    /\ \A k \in DOMAIN page.page_no[1] : IsDigit(page.page_no[1][k])
    /\ page.page_type # None
    /\ page.page_type[1] # ""

\* the text from the header of page a to the header found next (or the end)
Segment(text, a, b) ==
    Text(text.shape, SubSeq(text.pages, a, b),
         IF b = Len(text.pages) THEN text.cut ELSE None)

RECURSIVE SalvageSegments(_, _, _)
SalvageSegments(text, starts, k) ==
    IF k > Len(starts) THEN << >>
    ELSE LET a == starts[k]
             b == IF k < Len(starts) THEN starts[k + 1] - 1 ELSE Len(text.pages)
             r == salvage_partial_json(Segment(text, a, b))
         IN  (IF r = None THEN << >>
              ELSE <<[r[1] EXCEPT !.page_no = text.pages[a].page_no[1],
                                  !.page_type = text.pages[a].page_type[1]]>>)
             \o SalvageSegments(text, starts, k + 1)

\* the pages of the text where the page pattern matches, ascending
RECURSIVE HeaderPositions(_, _)
HeaderPositions(pages, i) ==
    IF i > Len(pages) THEN << >>
    ELSE (IF PageHeaderFound(pages[i]) THEN <<i>> ELSE << >>) \o HeaderPositions(pages, i + 1)

salvage_batch_response(text, page_nums) ==
    LET starts == HeaderPositions(text.pages, 1)
    IN  IF starts = << >>
        THEN LET r == salvage_partial_json(text)
             IN  IF r = None THEN << >>
                 ELSE <<[r[1] EXCEPT !.page_no = ToStr(page_nums[1])]>>
        ELSE SalvageSegments(text, starts, 1)

parse_batch_response(text, page_nums) ==
    IF text.shape \in {"object", "array"} /\ text.cut # None
    THEN salvage_batch_response(text, page_nums)
    ELSE IF text.shape = "array"
    THEN IF \E i \in DOMAIN text.pages : format_result(text.pages[i]).raised THEN << >>
         ELSE FormatPages(text.pages, page_nums, 1)
    ELSE IF text.shape = "object"
    THEN LET r == format_result(text.pages[1])
         IN  IF r.raised \/ r.val = None THEN << >>
             ELSE <<[r.val[1] EXCEPT !.page_no = ToStr(page_nums[1])]>>
    ELSE << >>

(***************************************************************************)
(* InvoiceExtractor.deduplicate_across_pages                               *)
(***************************************************************************)
summary_keywords ==
    { <<"c", "o", "n", "s", "u", "l", "t", "a", "t", "i", "o", "n">>,
      <<"d", "r", "u", "g", "s">>,
      <<"i", "n", "v", "e", "s", "t", "i", "g", "a", "t", "i", "o", "n", "s">>,
      <<"m", "e", "d", "i", "c", "a", "l", " ", "c", "o", "n", "s", "u", "m", "a", "b", "l", "e">>,
      <<"o", "t", "h", "e", "r", " ", "c", "h", "a", "r", "g", "e", "s">>,
      <<"p", "r", "o", "c", "e", "d", "u", "r", "e", "s">>,
      <<"r", "o", "o", "m", " ", "r", "e", "n", "t">>,
      <<"s", "u", "r", "g", "e", "r", "y">>,
      <<"p", "h", "a", "r", "m", "a", "c", "y">> }

GenericNameLength == 15

IsGeneric(item) ==
    LET name_lower == Strip(Lower(item.item_name))
    IN  name_lower \in summary_keywords \/ Len(name_lower) < GenericNameLength

\* generic_count / len(items) > 0.5
IsSummaryPage(page) ==
    2 * Cardinality({i \in DOMAIN page.bill_items : IsGeneric(page.bill_items[i])})
        > Len(page.bill_items)

\* a page found summary-like is relabelled in place, whatever is returned
MarkSummary(page) ==
    IF page.bill_items # << >> /\ IsSummaryPage(page)
    THEN [page EXCEPT !.page_type = "Final Bill"] ELSE page

IsDetailPage(page) == page.bill_items # << >> /\ ~IsSummaryPage(page)

\* a deduplication that never drops a page
deduplicate_keep_all(page_items) ==
    [k \in DOMAIN page_items |-> MarkSummary(page_items[k])]

\* a deduplication that returns the detail pages whether or not there are any
deduplicate_detail_only(page_items) ==
    IF Len(page_items) <= 1 THEN page_items
    ELSE SelectSeq([k \in DOMAIN page_items |-> MarkSummary(page_items[k])], IsDetailPage)

deduplicate_across_pages(page_items) ==
    IF Len(page_items) <= 1 THEN page_items
    ELSE LET marked == [k \in DOMAIN page_items |-> MarkSummary(page_items[k])]
             detail_pages == SelectSeq(marked, IsDetailPage)
             summary_pages == SelectSeq(marked, LAMBDA p : p.bill_items # << >> /\ IsSummaryPage(p))
         IN  IF detail_pages # << >> /\ summary_pages # << >> THEN detail_pages
             ELSE marked

\* sum(len(page.get('bill_items', [])) for page in all_page_items)
RECURSIVE CountItems(_)
CountItems(pages) ==
    IF pages = << >> THEN 0 ELSE Len(Head(pages).bill_items) + CountItems(Tail(pages))

\* a tail of extract_from_pdf that counts before it deduplicates
ExtractionResult_count_first(page_items) ==
    [pagewise_line_items |-> deduplicate_across_pages(page_items),
     total_item_count |-> CountItems(page_items)]

\* the tail of extract_from_pdf: deduplicate, then count
ExtractionResult(page_items) ==
    LET kept == deduplicate_across_pages(page_items)
    IN  [pagewise_line_items |-> kept, total_item_count |-> CountItems(kept)]


(***************************************************************************)
(* JSONParser.parse (src/parser.py), on the texts of one page object whose *)
(* complete bill_items elements are mappings with a name that has no ':'.  *)
(* An array text is complete.                                              *)
(***************************************************************************)
\* isinstance checks of _validate_structure: a mapping with a list bill_items
\* whose elements are mappings
_validate_structure(data) == \A i \in DOMAIN data.items : data.items[i].kind = "map"

\* json.loads(text) and the structure check
_try_direct_parse(text) ==
    IF IsJson(text) /\ text.shape = "object" /\ _validate_structure(text.pages[1])
    THEN Some(text.pages[1]) ELSE None

\* json.loads raises an exception that is no JSONDecodeError
JsonLoadsOverflows(text) == text.shape = "deep"

\* ```(?:json)?\s*([\s\S]*?)``` finds the block, whose content is parsed
_try_code_block_parse(text) ==
    IF text.shape = "fenced" THEN _try_direct_parse(ObjectOf(text)) ELSE None

\* \{[\s\S]*\} finds the text from the first '{' to the last '}'
ObjectFound(text) ==
    /\ text.shape \in {"object", "fenced", "array"}
    /\ text.pages # << >>
    /\ text.cut = None \/ text.pages[1].items # << >>

\* ... which is one object unless the text is an array of several pages
_try_json_object_parse(text) ==
    IF ObjectFound(text) /\ Len(text.pages) = 1 THEN _try_direct_parse(ObjectOf(text)) ELSE None

\* on the text up to the last '}', the end of the last complete item: no
\* top-level object is closed, so nothing is removed, and the brackets left
\* open are closed
_fix_truncation(text) == Text(text.shape, text.pages, None)

_try_fixed_parse(text) ==
    IF ~ObjectFound(text) \/ Len(text.pages) # 1 THEN None
    ELSE _try_direct_parse(_fix_truncation(ObjectOf(text)))

\* the lower-case spelling of a page_type label of the model
Spelled(label) ==
    CASE label = "Bill Detail" -> <<"b", "i", "l", "l", " ", "d", "e", "t", "a", "i", "l">>
      [] label = "Final Bill" -> <<"f", "i", "n", "a", "l", " ", "b", "i", "l", "l">>
      [] label = "Pharmacy" -> <<"p", "h", "a", "r", "m", "a", "c", "y">>
      [] label = "Summary" -> <<"s", "u", "m", "m", "a", "r", "y">>

\* the strings of text.lower() a keyword can lie in: the labels and the names
\* (no keyword lies in a key of the format)
RECURSIVE LabelsOf(_)
LabelsOf(pages) ==
    IF pages = << >> THEN << >>
    ELSE (IF Head(pages).page_type = None THEN << >> ELSE <<Spelled(Head(pages).page_type[1])>>)
         \o LabelsOf(Tail(pages))
StringsOf(text) ==
    LET all == AllItems(text.pages)
    IN  LabelsOf(text.pages)
        \o [k \in DOMAIN all |-> Lower(all[k].name)]
        \o (IF text.cut = None THEN << >> ELSE <<Lower(text.cut[1].name)>>)

Sniffed(text, kws) ==
    \E k \in DOMAIN StringsOf(text) : \E kw \in kws : Contains(StringsOf(text)[k], kw)

_detect_page_type(text) ==
    LET explicit == FirstPageType(text.pages)
    IN  IF explicit # None /\ explicit[1] \in {"Pharmacy", "Final Bill", "Bill Detail",
                                                "Investigation", "Consultation", "Room Charges"}
        THEN explicit[1]
        ELSE IF Sniffed(text, { <<"p", "h", "a", "r", "m", "a", "c", "y">>,
                                <<"m", "e", "d", "i", "c", "i", "n", "e">>,
                                <<"t", "a", "b", "l", "e", "t">>,
                                <<"c", "a", "p", "s", "u", "l", "e">>,
                                <<"s", "y", "r", "u", "p">>,
                                <<"i", "n", "j", "e", "c", "t", "i", "o", "n">>,
                                <<"m", "g">>, <<"m", "l">> })
        THEN "Pharmacy"
        ELSE IF Sniffed(text, { <<"f", "i", "n", "a", "l", " ", "b", "i", "l", "l">>,
                                <<"g", "r", "a", "n", "d", " ", "t", "o", "t", "a", "l">>,
                                <<"t", "o", "t", "a", "l", " ", "p", "a", "y", "a", "b", "l", "e">>,
                                <<"n", "e", "t", " ", "a", "m", "o", "u", "n", "t">> })
        THEN "Final Bill"
        ELSE IF Sniffed(text, { <<"i", "n", "v", "e", "s", "t", "i", "g", "a", "t", "i", "o", "n">>,
                                <<"l", "a", "b">>, <<"t", "e", "s", "t">>,
                                <<"p", "a", "t", "h", "o", "l", "o", "g", "y">>,
                                <<"r", "a", "d", "i", "o", "l", "o", "g", "y">> })
        THEN "Investigation"
        ELSE IF Sniffed(text, { <<"c", "o", "n", "s", "u", "l", "t", "a", "t", "i", "o", "n">>,
                                <<"d", "o", "c", "t", "o", "r">>, <<"v", "i", "s", "i", "t">> })
        THEN "Consultation"
        ELSE IF Sniffed(text, { <<"r", "o", "o", "m">>, <<"b", "e", "d">>,
                                <<"a", "c", "c", "o", "m", "m", "o", "d", "a", "t", "i", "o", "n">> })
        THEN "Room Charges"
        ELSE "Bill Detail"

\* ([\d,]+\.?\d*) after "item_amount": the digits before the cut, when they
\* start with a digit; _parse_number gives their value
RegexCutAmount(text) ==
    IF text.cut # None /\ text.cut[1].stage = "amt" /\ text.cut[1].digits # << >>
       /\ IsDigit(Head(text.cut[1].digits))
    THEN PyFloat(text.cut[1].digits) ELSE None

\* _deduplicate_items: the first item of each (name.lower().strip(), round(amount, 2))
RECURSIVE _deduplicate_items(_, _)
_deduplicate_items(items, seen) ==
    IF items = << >> THEN << >>
    ELSE LET key == <<Strip(Lower(Head(items).item_name)), Round2(Head(items).item_amount)>>
         IN  IF key \notin seen /\ key[1] # << >> /\ key[2] > 0
             THEN <<Head(items)>> \o _deduplicate_items(Tail(items), seen \cup {key})
             ELSE _deduplicate_items(Tail(items), seen)

\* pattern 1 (name, then amount) over the complete items and the cut one; the
\* patterns 2 and 3 find nothing pattern 1 has not found in these texts
_try_regex_extraction(text) ==
    LET found == CompleteItems(AllItems(text.pages))
                 \o PairUp(CutName(text), RegexCutAmount(text))
        items == _deduplicate_items(found, {})
    IN  IF found = << >> THEN None
        ELSE Some(Page(None, Some(_detect_page_type(text)),
                       [k \in DOMAIN items |-> Item(items[k].item_name, Num(items[k].item_amount))]))

\* a parse that tries the regular expressions over the text first
parse_salvage_first(text) ==
    IF text.shape = "empty" THEN None
    ELSE IF _try_regex_extraction(text) # None THEN _try_regex_extraction(text)
    ELSE IF _try_direct_parse(text) # None THEN _try_direct_parse(text)
    ELSE IF _try_code_block_parse(text) # None THEN _try_code_block_parse(text)
    ELSE IF _try_json_object_parse(text) # None THEN _try_json_object_parse(text)
    ELSE _try_fixed_parse(text)

\* JSONParser.parse: the first strategy that gives a result
parse(text) ==
    IF text.shape = "empty" THEN None
    ELSE IF _try_direct_parse(text) # None THEN _try_direct_parse(text)
    ELSE IF _try_code_block_parse(text) # None THEN _try_code_block_parse(text)
    ELSE IF _try_json_object_parse(text) # None THEN _try_json_object_parse(text)
    ELSE IF _try_fixed_parse(text) # None THEN _try_fixed_parse(text)
    ELSE _try_regex_extraction(text)

(***************************************************************************)
(* The model's answers.  The external model may answer a call with any     *)
(* text; the catalogue holds one page of each kind the properties concern. *)
(***************************************************************************)
MaxPages == 4

NameDetail == <<"D", "o", "c", "t", "o", "r", " ", "V", "i", "s", "i", "t", "i", "n", "g", " ", "F", "e", "e">>
NameSummary == <<"C", "o", "n", "s", "u", "l", "t", "a", "t", "i", "o", "n">>
NameTotal == <<"G", "r", "a", "n", "d", " ", "T", "o", "t", "a", "l">>
NotANumber == <<"N", "/", "A">>

PageKinds == {"detail", "summary", "total", "malformed", "noitems"}

\* the page object of one kind, with the page_no label `no` (None: no label)
RawPage(kind, no) ==
    CASE kind = "detail" ->
            Page(no, Some("Bill Detail"),
                 <<Item(NameDetail, Num(100000)), Item(NameDetail, Num(250500))>>)
      [] kind = "summary" ->
            Page(no, Some("Summary"), <<Item(NameSummary, Num(2650000))>>)
      [] kind = "total" ->
            Page(no, Some("Final Bill"), <<Item(NameTotal, Num(5000000))>>)
      [] kind = "malformed" ->
            Page(no, Some("Pharmacy"),
                 <<Item(NameDetail, StrAmt(NotANumber)), Item(NameDetail, Num(100000))>>)
      [] kind = "noitems" ->
            Page(no, Some("Bill Detail"), <<Item(NameDetail, Num(0))>>)

\* a text may stop inside one more item, after the first digits of its amount
CutShort == Some(Cut("amt", NameDetail, <<"1", "2">>))

\* the kinds of the pages of an answer about n pages: all pages of one kind, or
\* the first page of one kind and detail pages after it
BatchKinds(n) ==
    { [k \in 1..n |-> kind] : kind \in PageKinds }
    \cup { [k \in 1..n |-> IF k = 1 THEN kind ELSE "detail"] : kind \in PageKinds }

Labelled(kinds, page_nums) ==
    [k \in DOMAIN page_nums |-> RawPage(kinds[k], Some(ToStr(page_nums[k])))]

\* the model may label the pages of its answer as it likes: detail pages
\* carrying the page numbers of the batch in reverse order, or carrying a
\* number that is no page of the document
ForeignLabel == <<"9">>
Reversed(page_nums) ==
    [k \in DOMAIN page_nums |->
        RawPage("detail", Some(ToStr(page_nums[Len(page_nums) + 1 - k])))]
Mislabelled(page_nums) ==
    [k \in DOMAIN page_nums |->
        RawPage("detail", Some(IF k = 1 THEN ForeignLabel ELSE ToStr(page_nums[k])))]

\* answers to the batch prompt: an array with one object per page of the batch
\* (or a single object for a batch of one page), complete or cut short
BatchTexts(page_nums) ==
    { Text("array", Labelled(kinds, page_nums), None) : kinds \in BatchKinds(Len(page_nums)) }
    \cup { Text("array", Labelled([k \in DOMAIN page_nums |-> kind], page_nums), CutShort) :
             kind \in PageKinds }
    \cup (IF Len(page_nums) = 1
          THEN { Text("object", <<RawPage(kind, None)>>, None) : kind \in PageKinds }
          ELSE { Text("array", Reversed(page_nums), None) })
    \cup { Text("array", Mislabelled(page_nums), None) }
    \cup {EmptyText, ProseText}

\* answers to the single-page prompts
SingleTexts ==
    { Text("object", <<RawPage(kind, None)>>, None) : kind \in {"detail", "malformed", "noitems"} }
    \cup { Text("object", <<RawPage(kind, None)>>, CutShort) : kind \in {"summary", "noitems"} }
    \cup {EmptyText, ProseText}

\* how a call ends: the model answers with a text; generate_content raises
\* ("error"); the answer is blocked, so that reading response.text raises
\* ("blocked"); or the call never returns ("hang": no call sets a timeout)
Answer(text) == [k |-> "text", text |-> text]
NoAnswer(k) == [k |-> k, text |-> EmptyText]
Outcomes(texts) == { Answer(x) : x \in texts } \cup { NoAnswer(k) : k \in {"error", "blocked", "hang"} }

\* a text with nothing in it to parse
IsBarren(text) == text.shape \in {"empty", "prose"}

(***************************************************************************)
(* Sessions: the requests that run on the threads of the executor          *)
(* (src/main.py).  get_extractor hands every request the one               *)
(* InvoiceExtractor of the process, so all of them work on the same        *)
(* total_input_tokens and total_output_tokens.  This part follows the      *)
(* same handlers as the extraction below for what they do to the counters  *)
(* and for which call follows which; of a response it keeps whether it     *)
(* carries usage metadata and whether its text gives a page.               *)
(***************************************************************************)
max_workers == 2
Workers == 1..max_workers

\* the pages of a document served alone, and of one served beside another
MaxSessionPages == 2
MaxOverlapPages == 1
\* the requests followed
MaxRequests == 3

\* response.usage_metadata, where the response has one
Usage(p, c) == [prompt_token_count |-> p, candidates_token_count |-> c]

\* what generate_content returns: the usage metadata may be missing; the text
\* gives a page with items ("items"), gives nothing ("nothing": empty or not
\* parsable), or cannot be read because the answer was blocked ("blocked")
Response(u, text) == [usage_metadata |-> u, text |-> text]
NoResponse == Response(None, "none")
Responses ==
    { Response(u, text) : u \in {None, Some(Usage(5, 2))}, text \in {"items", "nothing", "blocked"} }
\* the responses that report their usage
Reporting == { r \in Responses : r.usage_metadata # None }

\* len(response.text) // 4
TextQuarter(text) == CASE text = "items" -> 3 [] text = "nothing" -> 1 [] OTHER -> 0

\* the estimate of the input tokens of a call without usage metadata, per image
EstimatedInput == 1500

\* a thread of the executor with no request
Rest ==
    [pc |-> "idle", n |-> 0, page |-> 0, call |-> "none", attempts |-> 0,
     resp |-> NoResponse, tmp |-> 0, used |-> <<0, 0>>, due |-> <<0, 0>>]

NoSession ==
    /\ total_input_tokens = 0
    /\ total_output_tokens = 0
    /\ credited = <<0, 0>>
    /\ requests = 0
    /\ thread = [w \in Workers |-> Rest]

(***************************************************************************)
(* Time, in half-seconds                                                   *)
(***************************************************************************)
REQUEST_TIMEOUT == 150
Deadline == 2 * REQUEST_TIMEOUT
\* time.sleep(4.5) between batches
BatchPause == 9
\* a call answers at once, or takes longer than the whole request may
CallDurations == {0, Deadline + 20}
\* the clock saturates just past the deadline
ClockCap == Deadline + 1
Later(t, d) == IF t + d > ClockCap THEN ClockCap ELSE t + d

(***************************************************************************)
(* The extraction: InvoiceExtractor.extract_from_url and below             *)
(***************************************************************************)
batch_size == 3

\* no image: width, height and the target_max_dim of the preprocessor
NoImage == [width |-> 0, height |-> 0, target_max_dim |-> 0]

\* no function is applied during a request
NoUnit ==
    [fn |-> "none", arg |-> "none", name |-> << >>, data |-> Page(None, None, << >>),
     text |-> EmptyText, page_nums |-> << >>, image |-> NoImage, out |-> << >>]

\* no request yet
Idle ==
    /\ pc = "idle"
    /\ doc = [kind |-> "none", pages |-> << >>]
    /\ batch_start = 0
    /\ fb = 0
    /\ results = << >>
    /\ all_page_items = << >>
    /\ result = None
    /\ status = [p \in 1..MaxPages |-> "none"]
    /\ elapsed = 0
    /\ calls = 0
    /\ http = "idle"

Init == Idle /\ unit = NoUnit /\ NoSession

\* batch = page_images[batch_start:batch_start + batch_size], as page numbers
Batch == SubSeq(doc.pages, batch_start + 1, IF batch_start + batch_size < Len(doc.pages) THEN batch_start + batch_size ELSE Len(doc.pages))

SetStatus(ps, s) == [p \in DOMAIN status |-> IF p \in Range(ps) THEN s ELSE status[p]]

\* the request arrives: extract_bill_data hands run_extraction to the executor,
\* extract_from_url downloads and opens the document and takes the PDF or the
\* image branch; a document that cannot be fetched or opened raises
extract_from_url ==
    /\ pc = "idle"
    /\ http' = "waiting"
    /\ \E kind \in {"pdf", "image", "unreadable"}, n \in 0..MaxPages :
        /\ kind = "image" => n = 1
        /\ kind = "unreadable" => n = 0
        /\ doc' = [kind |-> kind, pages |-> [k \in 1..n |-> k]]
        /\ status' = [p \in 1..MaxPages |-> IF p <= n THEN "pending" ELSE "none"]
        /\ pc' = CASE kind = "unreadable" -> "raised"
                   [] kind = "image" -> "single"
                   [] kind = "pdf" /\ n = 0 -> "done"
                   [] OTHER -> "batch"
        /\ fb' = IF kind = "image" THEN 1 ELSE 0
        /\ result' = IF kind = "pdf" /\ n = 0
                     THEN Some([pagewise_line_items |-> << >>, total_item_count |-> 0])
                     ELSE None
    /\ UNCHANGED << batch_start, results, all_page_items, elapsed, calls, unit, session >>

\* extract_from_pdf after a batch: the next batch, or the end of the loop with
\* the deduplication and the total
AfterBatch(collected) ==
    /\ all_page_items' = collected
    /\ results' = << >>
    /\ fb' = 0
    /\ IF batch_start + batch_size < Len(doc.pages)
       THEN /\ batch_start' = batch_start + batch_size
            /\ pc' = "batch"
            /\ result' = result
       ELSE /\ batch_start' = batch_start
            /\ pc' = "done"
            /\ result' = Some(ExtractionResult(collected))

\* extract_batch: one call for the pages of the batch
BatchCall ==
    /\ pc = "batch"
    /\ calls' = calls + 1
    /\ \E o \in Outcomes(BatchTexts(Batch)), d \in CallDurations :
        LET pause == IF batch_start > 0 THEN BatchPause ELSE 0 IN
        CASE o.k = "text" ->
                /\ elapsed' = Later(elapsed, pause + d)
                /\ status' = SetStatus(Batch, IF IsBarren(o.text) THEN "failed" ELSE "answered")
                /\ AfterBatch(all_page_items \o parse_batch_response(o.text, Batch))
          [] o.k \in {"error", "blocked"} ->
                /\ elapsed' = Later(elapsed, pause + d)
                /\ pc' = "single"
                /\ fb' = 1
                /\ results' = << >>
                /\ UNCHANGED << batch_start, all_page_items, result, status >>
          [] o.k = "hang" ->
                /\ elapsed' = Later(elapsed, pause)
                /\ pc' = "hung"
                /\ UNCHANGED << batch_start, fb, results, all_page_items, result, status >>
    /\ UNCHANGED << doc, http, unit, session >>

\* a fallback loop that stays on its page
AfterPage_same_page(found) ==
    /\ pc' = "single"
    /\ results' = found
    /\ UNCHANGED << batch_start, fb, all_page_items, result >>

\* the fallback loop of extract_batch (or extract_from_image) after one page
AfterPage(found) ==
    IF fb < Len(Batch)
    THEN /\ fb' = fb + 1
         /\ pc' = "single"
         /\ results' = found
         /\ UNCHANGED << batch_start, all_page_items, result >>
    ELSE IF doc.kind = "image"
    THEN /\ pc' = "done"
         /\ result' = Some([pagewise_line_items |-> found,
                            total_item_count |-> IF found = << >> THEN 0
                                                 ELSE Len(found[1].bill_items)])
         /\ results' = << >>
         /\ UNCHANGED << batch_start, fb, all_page_items >>
    ELSE AfterBatch(all_page_items \o found)

\* a handler that lets the exception of a page leave the document-level call
PageFailed_reraise(page_num) ==
    /\ pc' = "raised"
    /\ UNCHANGED << batch_start, fb, results, all_page_items, result, status >>

\* except Exception: return None -- the page gives nothing, the loop goes on
PageFailed(page_num) ==
    /\ status' = SetStatus(<<page_num>>, "failed")
    /\ AfterPage(results)

\* result['page_no'] = str(page_num)
Numbered(page, page_num) == [page EXCEPT !.page_no = ToStr(page_num)]

\* extract_single_page up to its return or its call of retry_extraction
extract_single_page ==
    /\ pc = "single"
    /\ calls' = calls + 1
    /\ \E o \in Outcomes(SingleTexts), d \in CallDurations :
        LET page_num == Batch[fb]
            r == parse_llm_response(o.text)
        IN  CASE o.k = "text" /\ r # None ->
                    /\ elapsed' = Later(elapsed, d)
                    /\ status' = SetStatus(<<page_num>>, "answered")
                    /\ AfterPage(Append(results, Numbered(r[1], page_num)))
              [] o.k = "text" /\ r = None ->
                    /\ elapsed' = Later(elapsed, d)
                    /\ pc' = "retry"
                    /\ UNCHANGED << batch_start, fb, results, all_page_items, result, status >>
              [] o.k \in {"error", "blocked"} ->
                    /\ elapsed' = Later(elapsed, d)
                    /\ PageFailed(page_num)
              [] o.k = "hang" ->
                    /\ pc' = "hung"
                    /\ UNCHANGED << batch_start, fb, results, all_page_items, result, status, elapsed >>
    /\ UNCHANGED << doc, http, unit, session >>

\* retry_extraction: one more call with the short prompt
retry_extraction ==
    /\ pc = "retry"
    /\ calls' = calls + 1
    /\ \E o \in Outcomes(SingleTexts), d \in CallDurations :
        LET page_num == Batch[fb]
            r == parse_llm_response(o.text)
        IN  CASE o.k = "text" /\ r # None ->
                    /\ elapsed' = Later(elapsed, d)
                    /\ status' = SetStatus(<<page_num>>, "answered")
                    /\ AfterPage(Append(results, Numbered(r[1], page_num)))
              [] o.k \in {"text", "error", "blocked"} /\ ~(o.k = "text" /\ r # None) ->
                    /\ elapsed' = Later(elapsed, d)
                    /\ PageFailed(page_num)
              [] o.k = "hang" ->
                    /\ pc' = "hung"
                    /\ UNCHANGED << batch_start, fb, results, all_page_items, result, status, elapsed >>
    /\ UNCHANGED << doc, http, unit, session >>

\* the steps of the worker thread that runs the extraction
WorkerNext == extract_from_url \/ BatchCall \/ extract_single_page \/ retry_extraction

(***************************************************************************)
(* The endpoint (src/main.py): it awaits the worker for REQUEST_TIMEOUT    *)
(* seconds; the timeout answers the client and leaves the worker running.  *)
(***************************************************************************)
\* an endpoint that answers every finished call as a success
EndpointAnswers_success ==
    /\ http = "waiting"
    /\ pc \in {"done", "raised"}
    /\ elapsed <= Deadline
    /\ http' = "success"
    /\ UNCHANGED << pc, doc, batch_start, fb, results, all_page_items, result, status, elapsed, calls, unit, session >>

EndpointAnswers ==
    /\ http = "waiting"
    /\ pc \in {"done", "raised"}
    /\ elapsed <= Deadline
    /\ http' = IF pc = "done" THEN "success" ELSE "failure"
    /\ UNCHANGED << pc, doc, batch_start, fb, results, all_page_items, result, status, elapsed, calls, unit, session >>

EndpointTimesOut ==
    /\ http = "waiting"
    /\ elapsed > Deadline \/ pc = "hung"
    /\ http' = "timeout"
    /\ elapsed' = ClockCap
    /\ UNCHANGED << pc, doc, batch_start, fb, results, all_page_items, result, status, calls, unit, session >>

Next == WorkerNext \/ EndpointAnswers \/ EndpointTimesOut

Spec == Init /\ [][Next]_vars

(***************************************************************************)
(* The functions on their own: one application of a function to one input  *)
(***************************************************************************)
MaxNameLen == 4
MaxItems == 2
MaxComplete == 3

\* names: every text up to MaxNameLen over a bracket, a digit, a letter, a dot
\* and a blank
NameAlphabet == {"(", "1", "a", ".", " "}
UnitNames == UNION { [1..n -> NameAlphabet] : n \in 0..MaxNameLen }

Minus50 == <<"-", "5", "0">>

\* elements of bill_items: a valid item, an amount under half a cent, a total
\* line, amounts that are no number, zero, negative as a string, null, and an
\* element that is no mapping
UnitItems ==
    { Item(NameDetail, Num(100000)), Item(NameDetail, Num(4)),
      Item(NameTotal, Num(5000000)), Item(NameDetail, StrAmt(NotANumber)),
      Item(NameDetail, Num(0)), Item(NameDetail, StrAmt(Minus50)),
      Item(NameDetail, NullAmt), NonMapItem }

UnitPages ==
    { Page(None, label, items) :
        label \in {None, Some("Pharmacy"), Some("Summary")},
        items \in UNION { [1..n -> UnitItems] : n \in 0..MaxItems } }

\* the k-th complete item of a truncated text
GoodItem(k) == Item(NameDetail \o <<" ">> \o ToStr(k), Num(1000 * k + 500))
GoodItems(n) == [k \in 1..n |-> GoodItem(k)]

\* the pages of the texts that are a JSON list: a page with items, a page
\* with an item that is no mapping, a page with no items
ListedPages ==
    { Page(None, Some("Pharmacy"), items) :
        items \in { <<GoodItem(1), GoodItem(2)>>, <<GoodItem(1), NonMapItem>>, << >> } }

\* where a text may stop inside the item after the complete ones
UnitCuts ==
    { Cut("key", << >>, << >>), Cut("name", NameDetail, << >>) }
    \cup { Cut("amt", NameDetail, d) : d \in { <<"1", "2">>, <<"1", "2", ".">>, <<"0">>, <<".", "5">> } }

\* n complete items, then one incomplete item and no closing bracket
Truncated(n, c) == Text("object", <<Page(None, Some("Summary"), GoodItems(n))>>, Some(c))

UnitTexts ==
    { Text("object", <<p>>, None) : p \in UnitPages }
    \cup { Truncated(n, c) : n \in 0..MaxComplete, c \in UnitCuts }
    \cup { FencedText(p) : p \in UnitPages }
    \cup { Text("array", pages, None) : pages \in {<< >>} \cup { <<p>> : p \in ListedPages }
                                                  \cup { <<p, q>> : p, q \in ListedPages } }
    \cup {EmptyText, ProseText, DeepText}

UnitInput(arg, name, data, text, page_nums) ==
    [fn |-> "none", arg |-> arg, name |-> name, data |-> data, text |-> text,
     page_nums |-> page_nums, image |-> NoImage, out |-> << >>]

(***************************************************************************)
(* JSONParser._fix_truncation (src/parser.py) on the characters of a text  *)
(***************************************************************************)
\* text.count(c)
Count(text, c) == Cardinality({i \in DOMAIN text : text[i] = c})

KeyItemName == <<"\"", "i", "t", "e", "m", "_", "n", "a", "m", "e", "\"">>
KeyItemAmount == <<"\"", "i", "t", "e", "m", "_", "a", "m", "o", "u", "n", "t", "\"">>

\* the scan of _find_last_complete_item from the character at i (from 1),
\* with the depth, the start of the open top-level object (0: none yet) and
\* the last recorded position (0: none)
RECURSIVE LastCompleteFrom(_, _, _, _, _)
LastCompleteFrom(text, i, depth, start, last) ==
    IF i > Len(text) THEN last
    ELSE IF text[i] = "{"
         THEN LastCompleteFrom(text, i + 1, depth + 1, IF depth = 0 THEN i ELSE start, last)
    ELSE IF text[i] = "}"
         THEN LET snippet == SubSeq(text, start, i)
                  found == /\ depth - 1 = 0
                           /\ start >= 1
                           /\ Contains(snippet, KeyItemName) \/ Contains(snippet, KeyItemAmount)
              IN  LastCompleteFrom(text, i + 1, depth - 1, start, IF found THEN i ELSE last)
    ELSE LastCompleteFrom(text, i + 1, depth, start, last)

\* the position (from 1) of the '}' of the last complete item, or 0; the
\* code counts from 0, returns -1 for none, and does not cut at position 0,
\* which no '}' that closes an object can have
_find_last_complete_item(text) == LastCompleteFrom(text, 1, 0, 0, 0)

Repeat(c, n) == [k \in 1..(IF n > 0 THEN n ELSE 0) |-> c]

FixTruncation(text) ==
    LET open_braces == Count(text, "{") - Count(text, "}")
        open_brackets == Count(text, "[") - Count(text, "]")
    IN  IF open_braces > 0 \/ open_brackets > 0
        THEN LET last_complete == _find_last_complete_item(text)
                 cut == IF last_complete > 0 THEN SubSeq(text, 1, last_complete) ELSE text
                 braces == Count(cut, "{") - Count(cut, "}")
                 brackets == Count(cut, "[") - Count(cut, "]")
             IN  RStrip(RStrip(cut, {","}), Whitespace)
                    \o Repeat("]", brackets) \o Repeat("}", braces)
        ELSE text

\* the texts to repair: up to MaxFragments fragments, each a bracket, a
\* comma, a blank or a complete item
MaxFragments == 4
ItemObject == <<"{">> \o KeyItemName \o <<":", "1", "}">>
Fragments == { <<"{">>, <<"}">>, <<"[">>, <<"]">>, <<",">>, <<" ">>, ItemObject }
RECURSIVE Joined(_)
Joined(fs) == IF fs = << >> THEN << >> ELSE Head(fs) \o Joined(Tail(fs))
UnitJson == { Joined(fs) : fs \in UNION { [1..n -> Fragments] : n \in 0..MaxFragments } }

(***************************************************************************)
(* PageResult.validate_page_type (src/schemas.py), on the characters of    *)
(* the label                                                               *)
(***************************************************************************)
\* the values of the enumeration PageType, as texts
LabelBillDetail == <<"B", "i", "l", "l", " ", "D", "e", "t", "a", "i", "l">>
LabelPharmacy == <<"P", "h", "a", "r", "m", "a", "c", "y">>
LabelFinalBill == <<"F", "i", "n", "a", "l", " ", "B", "i", "l", "l">>
LabelInvestigation == <<"I", "n", "v", "e", "s", "t", "i", "g", "a", "t", "i", "o", "n">>
LabelConsultation == <<"C", "o", "n", "s", "u", "l", "t", "a", "t", "i", "o", "n">>
LabelRoomCharges == <<"R", "o", "o", "m", " ", "C", "h", "a", "r", "g", "e", "s">>
LabelServices == <<"S", "e", "r", "v", "i", "c", "e", "s">>
LabelProcedure == <<"P", "r", "o", "c", "e", "d", "u", "r", "e">>
PageTypeValues ==
    { LabelBillDetail, LabelPharmacy, LabelFinalBill, LabelInvestigation,
      LabelConsultation, LabelRoomCharges, LabelServices, LabelProcedure }

\* type_mapping, in the order of the dict: the key and the standard type
type_mapping ==
    << <<<<"p", "h", "a", "r", "m", "a", "c", "y">>, LabelPharmacy>>,
       <<<<"m", "e", "d", "i", "c", "i", "n", "e">>, LabelPharmacy>>,
       <<<<"m", "e", "d", "i", "c", "i", "n", "e", "s">>, LabelPharmacy>>,
       <<<<"d", "r", "u", "g">>, LabelPharmacy>>,
       <<<<"f", "i", "n", "a", "l", " ", "b", "i", "l", "l">>, LabelFinalBill>>,
       <<<<"f", "i", "n", "a", "l">>, LabelFinalBill>>,
       <<<<"s", "u", "m", "m", "a", "r", "y">>, LabelFinalBill>>,
       <<<<"t", "o", "t", "a", "l">>, LabelFinalBill>>,
       <<<<"b", "i", "l", "l", " ", "d", "e", "t", "a", "i", "l">>, LabelBillDetail>>,
       <<<<"d", "e", "t", "a", "i", "l">>, LabelBillDetail>>,
       <<<<"d", "e", "t", "a", "i", "l", "s">>, LabelBillDetail>>,
       <<<<"i", "n", "v", "e", "s", "t", "i", "g", "a", "t", "i", "o", "n">>, LabelInvestigation>>,
       <<<<"l", "a", "b">>, LabelInvestigation>>,
       <<<<"l", "a", "b", "o", "r", "a", "t", "o", "r", "y">>, LabelInvestigation>>,
       <<<<"p", "a", "t", "h", "o", "l", "o", "g", "y">>, LabelInvestigation>>,
       <<<<"r", "a", "d", "i", "o", "l", "o", "g", "y">>, LabelInvestigation>>,
       <<<<"c", "o", "n", "s", "u", "l", "t", "a", "t", "i", "o", "n">>, LabelConsultation>>,
       <<<<"d", "o", "c", "t", "o", "r">>, LabelConsultation>>,
       <<<<"r", "o", "o", "m">>, LabelRoomCharges>>,
       <<<<"r", "o", "o", "m", " ", "c", "h", "a", "r", "g", "e", "s">>, LabelRoomCharges>>,
       <<<<"a", "c", "c", "o", "m", "m", "o", "d", "a", "t", "i", "o", "n">>, LabelRoomCharges>>,
       <<<<"b", "e", "d">>, LabelRoomCharges>>,
       <<<<"s", "e", "r", "v", "i", "c", "e", "s">>, LabelServices>>,
       <<<<"s", "e", "r", "v", "i", "c", "e">>, LabelServices>>,
       <<<<"p", "r", "o", "c", "e", "d", "u", "r", "e">>, LabelProcedure>>,
       <<<<"s", "u", "r", "g", "e", "r", "y">>, LabelProcedure>>,
       <<<<"o", "p", "e", "r", "a", "t", "i", "o", "n">>, LabelProcedure>> >>

\* a lookup that tests the keys against the label as it is written
validate_page_type_as_written(v) ==
    LET hits == {i \in DOMAIN type_mapping : Contains(v, type_mapping[i][1])}
    IN  IF hits = {} THEN LabelBillDetail
        ELSE type_mapping[CHOOSE i \in hits : \A j \in hits : i <= j][2]

\* the standard type of the first key found in the lower-case label, or the
\* default
validate_page_type(v) ==
    LET v_lower == Strip(Lower(v))
        hits == {i \in DOMAIN type_mapping : Contains(v_lower, type_mapping[i][1])}
    IN  IF hits = {} THEN LabelBillDetail
        ELSE type_mapping[CHOOSE i \in hits : \A j \in hits : i <= j][2]

\* raw labels: the values of the enumeration, the keys, two keys with a
\* blank between them, the same in capitals, and labels with no key
MappingKeys == { type_mapping[i][1] : i \in DOMAIN type_mapping }
Upper(s) == [i \in DOMAIN s |-> IF \E k \in DOMAIN LowerSeq : LowerSeq[k] = s[i]
                                   THEN UpperSeq[CHOOSE k \in DOMAIN LowerSeq : LowerSeq[k] = s[i]]
                                   ELSE s[i]]
RawLabels ==
    PageTypeValues \cup MappingKeys
        \cup { a \o <<" ">> \o b : a, b \in MappingKeys }
        \cup { Upper(a) : a \in MappingKeys }
        \cup { << >>, <<" ">>, <<"O", "P", "D">>, <<" ", "L", "a", "b", " ">> }


(***************************************************************************)
(* ImagePreprocessor._smart_resize (src/preprocessor.py), on the size of   *)
(* the image. The scale is a float: int(side * scale) is the integer part  *)
(* of the exact product, or one less when the exact product is a whole     *)
(* number and the scale is not.                                            *)
(***************************************************************************)
TARGET_MAX_DIM == 1600
TARGET_MIN_DIM == 800

\* int(side * (num / den))
ScaledSide(side, num, den) ==
    LET q == (side * num) \div den
    IN  IF (side * num) % den = 0 /\ num % den # 0 /\ q > 0 THEN {q, q - 1} ELSE {q}

Max(a, b) == IF a >= b THEN a ELSE b

\* the sizes the resize step may return for an image
_smart_resize(image) ==
    LET max_dim == Max(image.width, image.height)
        Sizes(num, den) == { <<w, h>> : w \in ScaledSide(image.width, num, den),
                                       h \in ScaledSide(image.height, num, den) }
    IN  IF max_dim <= image.target_max_dim
        THEN IF max_dim < TARGET_MIN_DIM
             THEN IF TARGET_MIN_DIM >= 2 * max_dim
                  THEN { <<2 * image.width, 2 * image.height>> }
                  ELSE Sizes(TARGET_MIN_DIM, max_dim)
             ELSE { <<image.width, image.height>> }
        ELSE Sizes(image.target_max_dim, max_dim)

\* sides of the images and the configurations of target_max_dim
ImageSides == {1, 300, 450, 799, 800, 1000, 1600, 1601, 3200}
TargetMaxDims == {500, TARGET_MAX_DIM}
UnitImages ==
    [width : ImageSides, height : ImageSides, target_max_dim : TargetMaxDims]

UnitInit ==
    /\ Idle
    /\ NoSession
    /\ \/ \E n \in UnitNames : unit = UnitInput("name", n, Page(None, None, << >>), EmptyText, << >>)
       \/ \E p \in UnitPages : unit = UnitInput("data", << >>, p, EmptyText, << >>)
       \/ \E t \in UnitTexts : unit = UnitInput("text", << >>, Page(None, None, << >>), t, << >>)
       \/ \E j \in UnitJson : unit = UnitInput("json", j, Page(None, None, << >>), EmptyText, << >>)
       \/ \E l \in RawLabels : unit = UnitInput("label", l, Page(None, None, << >>), EmptyText, << >>)
       \/ \E i \in UnitImages :
            unit = [UnitInput("image", << >>, Page(None, None, << >>), EmptyText, << >>)
                        EXCEPT !.image = i]
       \/ \E n \in 1..2 : \E t \in BatchTexts([k \in 1..n |-> k]) :
            unit = UnitInput("batch", << >>, Page(None, None, << >>), t, [k \in 1..n |-> k])

\* the function fn applied to the input, with its outcome
Applied(arg, fn, out) ==
    /\ unit.fn = "none"
    /\ unit.arg = arg
    /\ unit' = [unit EXCEPT !.fn = fn, !.out = <<out>>]
    /\ UNCHANGED << pc, doc, batch_start, fb, results, all_page_items, result, status, elapsed, calls, http, session >>

\* the function fn applied to the input raises where the model gives it no
\* outcome to return: the application leaves no output
Failed(arg, fn) ==
    /\ unit.fn = "none"
    /\ unit.arg = arg
    /\ unit' = [unit EXCEPT !.fn = fn, !.out = << >>]
    /\ UNCHANGED << pc, doc, batch_start, fb, results, all_page_items, result, status, elapsed, calls, http, session >>

Call_clean_name == Applied("name", "_clean_name", _clean_name(unit.name))
Call_clean_item_name == Applied("name", "clean_item_name", clean_item_name(unit.name))
\* _validate_item on an item with the name of the input and an amount of 100
Call_validate_item ==
    Applied("name", "_validate_item", _validate_item(Item(unit.name, Num(100000))))
Call_fix_truncation == Applied("json", "_fix_truncation", FixTruncation(unit.name))
Call_validate_page_type ==
    Applied("label", "validate_page_type", validate_page_type(unit.name))
Call_smart_resize ==
    \E size \in _smart_resize(unit.image) : Applied("image", "_smart_resize", size)
Call_validate_and_clean == Applied("data", "validate_and_clean", validate_and_clean(unit.data))
Call_format_result == Applied("data", "format_result", format_result(unit.data))
Call_parse_llm_response == Applied("text", "parse_llm_response", parse_llm_response(unit.text))
\* json.loads raises in the first strategy, and parse with it
Call_parse ==
    IF JsonLoadsOverflows(unit.text)
    THEN Failed("text", "parse")
    ELSE Applied("text", "parse", parse(unit.text))
Call_parse_batch_response ==
    Applied("batch", "parse_batch_response", parse_batch_response(unit.text, unit.page_nums))

UnitNext ==
    \/ Call_clean_name
    \/ Call_clean_item_name
    \/ Call_validate_item
    \/ Call_smart_resize
    \/ Call_validate_page_type
    \/ Call_fix_truncation
    \/ Call_validate_and_clean
    \/ Call_format_result
    \/ Call_parse_llm_response
    \/ Call_parse
    \/ Call_parse_batch_response

UnitSpec == UnitInit /\ [][UnitNext]_vars


(***************************************************************************)
(* The steps of the sessions                                               *)
(***************************************************************************)
\* what the tracking block of a call adds to the input counter for its response
InputIncrement(th) ==
    IF th.resp.usage_metadata # None
    THEN th.resp.usage_metadata[1].prompt_token_count
    ELSE EstimatedInput * (IF th.call = "batch" THEN th.n ELSE 1)

OutputIncrement(th) ==
    IF th.resp.usage_metadata # None
    THEN th.resp.usage_metadata[1].candidates_token_count
    ELSE TextQuarter(th.resp.text)

\* what a response is to be accounted with: the counts it reports, or an
\* estimate when it reports none (a blocked answer has no text to measure)
Accountable(call, n, r) ==
    IF r.usage_metadata # None
    THEN <<r.usage_metadata[1].prompt_token_count, r.usage_metadata[1].candidates_token_count>>
    ELSE <<EstimatedInput * (IF call = "batch" THEN n ELSE 1), TextQuarter(r.text)>>

\* the tracking block of retry_extraction has no else branch
Tracks(th) == th.resp.usage_metadata # None \/ th.call # "retry"

\* the fallback loop of extract_batch, or extract_from_image, after a page
NextPage(th) ==
    IF th.page < th.n
    THEN [th EXCEPT !.page = th.page + 1, !.call = "single", !.attempts = 1, !.pc = "call"]
    ELSE [th EXCEPT !.pc = "returned"]

\* the attempt of the thread ends: with a page ("items"), with nothing, with a
\* blocked text (reading response.text raises) or with an error of the call
Ends(th, how) ==
    LET t == [th EXCEPT !.attempts = th.attempts + 1, !.resp = NoResponse, !.tmp = 0]
    IN  CASE th.call = "batch" /\ how \in {"blocked", "error"} ->
                [t EXCEPT !.page = 1, !.call = "single", !.pc = "call"]
          [] th.call = "batch" /\ how \in {"items", "nothing"} ->
                [t EXCEPT !.pc = "returned"]
          [] th.call = "single" /\ how = "nothing" ->
                [t EXCEPT !.call = "retry", !.pc = "call"]
          [] OTHER -> NextPage(t)

SetThread(w, th) == thread' = [thread EXCEPT ![w] = th]

\* the request of thread w starts on a document of the kind with n pages
Arrive(w, kind, n) ==
    SetThread(w, [Rest EXCEPT !.pc = CASE kind = "unreadable" -> "raised"
                                      [] kind = "pdf" /\ n = 0 -> "returned"
                                      [] OTHER -> "call",
                              !.n = n,
                              !.page = IF kind = "image" THEN 1 ELSE 0,
                              !.call = CASE kind = "image" -> "single"
                                         [] kind = "pdf" /\ n > 0 -> "batch"
                                         [] OTHER -> "none"])

\* an extract_from_url that does not reset the counters
run_extraction_no_reset(w, most) ==
    /\ thread[w].pc = "idle"
    /\ requests < MaxRequests
    /\ requests' = requests + 1
    /\ \E kind \in {"pdf", "image", "unreadable"}, n \in 0..most :
        /\ kind = "image" => n = 1
        /\ kind = "unreadable" => n = 0
        /\ Arrive(w, kind, n)
    /\ UNCHANGED << total_input_tokens, total_output_tokens, credited, pipeline >>

\* run_extraction on a thread of the executor: extract_from_url resets the
\* counters, fetches the document and takes the PDF or the image branch
run_extraction(w, most) ==
    /\ thread[w].pc = "idle"
    /\ requests < MaxRequests
    /\ requests' = requests + 1
    /\ total_input_tokens' = 0
    /\ total_output_tokens' = 0
    /\ credited' = <<0, 0>>
    /\ \E kind \in {"pdf", "image", "unreadable"}, n \in 0..most :
        /\ kind = "image" => n = 1
        /\ kind = "unreadable" => n = 0
        /\ Arrive(w, kind, n)
    /\ UNCHANGED pipeline

\* self.model.generate_content of extract_batch, extract_single_page or
\* retry_extraction: it raises, or it returns one of the responses rs
generate_content(w, rs) ==
    LET th == thread[w] IN
    /\ th.pc = "call"
    /\ \/ SetThread(w, Ends(th, "error"))
       \/ \E r \in rs :
            LET acc == Accountable(th.call, th.n, r)
                got == [th EXCEPT !.resp = r,
                                  !.due = <<th.due[1] + acc[1], th.due[2] + acc[2]>>]
            IN  SetThread(w, [got EXCEPT !.pc = IF Tracks(got) THEN "load_input" ELSE "parse"])
    /\ UNCHANGED << total_input_tokens, total_output_tokens, credited, requests, pipeline >>

\* self.total_input_tokens += ... : the read of the attribute
LoadInput(w) ==
    /\ thread[w].pc = "load_input"
    /\ SetThread(w, [thread[w] EXCEPT !.tmp = total_input_tokens, !.pc = "store_input"])
    /\ UNCHANGED << total_input_tokens, total_output_tokens, credited, requests, pipeline >>

\* ... and the write of the sum
StoreInput(w) ==
    LET th == thread[w]
        add == InputIncrement(th)
    IN  /\ th.pc = "store_input"
        /\ total_input_tokens' = th.tmp + add
        /\ credited' = <<credited[1] + add, credited[2]>>
        /\ SetThread(w, [th EXCEPT !.used = <<th.used[1] + add, th.used[2]>>,
                                   !.tmp = 0, !.pc = "load_output"])
        /\ UNCHANGED << total_output_tokens, requests, pipeline >>

\* self.total_output_tokens += ... : the read of the attribute; in the else
\* branch the right-hand side reads response.text, which raises when the
\* answer was blocked
LoadOutput(w) ==
    LET th == thread[w] IN
    /\ th.pc = "load_output"
    /\ SetThread(w, IF th.resp.usage_metadata = None /\ th.resp.text = "blocked"
                    THEN Ends(th, "blocked")
                    ELSE [th EXCEPT !.tmp = total_output_tokens, !.pc = "store_output"])
    /\ UNCHANGED << total_input_tokens, total_output_tokens, credited, requests, pipeline >>

\* ... and the write of the sum
StoreOutput(w) ==
    LET th == thread[w]
        add == OutputIncrement(th)
    IN  /\ th.pc = "store_output"
        /\ total_output_tokens' = th.tmp + add
        /\ credited' = <<credited[1], credited[2] + add>>
        /\ SetThread(w, [th EXCEPT !.used = <<th.used[1], th.used[2] + add>>,
                                   !.tmp = 0, !.pc = "parse"])
        /\ UNCHANGED << total_input_tokens, requests, pipeline >>

\* the response is read and parsed: parse_batch_response or parse_llm_response
\* on response.text, and what the caller does with what it gives
ParseResponse(w) ==
    /\ thread[w].pc = "parse"
    /\ SetThread(w, Ends(thread[w], thread[w].resp.text))
    /\ UNCHANGED << total_input_tokens, total_output_tokens, credited, requests, pipeline >>

\* extract_bill_data after run_extraction: build_response reads the counters
\* of the extractor as they are then; a request that raised is answered with
\* TokenUsage()
extract_bill_data(w) ==
    /\ thread[w].pc \in {"returned", "raised"}
    /\ SetThread(w, Rest)
    /\ UNCHANGED << total_input_tokens, total_output_tokens, credited, requests, pipeline >>

\* no request is being served
NoneRunning == \A w \in Workers : thread[w].pc = "idle"

\* the steps of a request on thread w whose model answers with one of rs
Serve(w, rs) ==
    \/ generate_content(w, rs)
    \/ LoadInput(w)
    \/ StoreInput(w)
    \/ LoadOutput(w)
    \/ StoreOutput(w)
    \/ ParseResponse(w)
    \/ extract_bill_data(w)

\* requests one after another: a request arrives when none is being served
SerialNext ==
    \E w \in Workers :
        \/ NoneRunning /\ run_extraction(w, MaxSessionPages)
        \/ Serve(w, Responses)

SerialSpec == Init /\ [][SerialNext]_vars

\* requests at any time: the executor runs them on its threads side by side
SessionNext ==
    \E w \in Workers :
        \/ run_extraction(w, MaxOverlapPages)
        \/ Serve(w, Reporting)

SessionSpec == Init /\ [][SessionNext]_vars


(***************************************************************************)
(* Properties                                                              *)
(***************************************************************************)
\* the pages a function of the pipeline or the validator gave back
OutPages ==
    CASE unit.fn = "validate_and_clean" ->
            IF unit.out[1].raised THEN << >> ELSE <<unit.out[1].val>>
      [] unit.fn = "format_result" ->
            IF unit.out[1].raised THEN << >> ELSE unit.out[1].val
      [] unit.fn = "parse_llm_response" -> unit.out[1]
      [] unit.fn = "parse_batch_response" -> unit.out[1]
      [] OTHER -> << >>

\* the pages the extraction holds: collected, in the fallback loop, returned
HeldPages ==
    all_page_items \o results \o (IF result = None THEN << >> ELSE result[1].pagewise_line_items)

\* C1: every item retained by format_result, by the salvage (through
\* parse_llm_response and parse_batch_response) and by
\* ResponseValidator.validate_and_clean has item_amount > 0.
C1_Positivity ==
    \A k \in DOMAIN OutPages : \A i \in DOMAIN OutPages[k].bill_items :
        OutPages[k].bill_items[i].item_amount > 0

\* the members of the PageType enumeration (src/schemas.py)
PageType ==
    {"Bill Detail", "Pharmacy", "Final Bill", "Investigation", "Consultation",
     "Room Charges", "Services", "Procedure"}

\* C2: the page_type of every page result of the extraction, whatever path
\* parsed it, is a member of the PageType enumeration.
C2_ClosedEnumeration ==
    \A k \in DOMAIN HeldPages : HeldPages[k].page_type \in PageType

\* C3: total_item_count of every returned result is the number of items on
\* the pages of its pagewise_line_items, also when the deduplication has
\* removed pages.
C3_TotalConsistent ==
    result # None =>
        LET pages == result[1].pagewise_line_items
        IN  result[1].total_item_count =
                Cardinality(UNION { { <<k, i>> : i \in DOMAIN pages[k].bill_items } :
                                    k \in DOMAIN pages })

\* a PDF is done, the deduplication has removed a collected page, items remain
C3_Witness ==
    /\ pc = "done"
    /\ doc.kind = "pdf"
    /\ result # None
    /\ Len(result[1].pagewise_line_items) < Len(all_page_items)
    /\ result[1].total_item_count > 0

\* a parser has been applied to a text of one page object that stops inside
\* an item, after the complete items of the page
OnTruncated ==
    /\ unit.fn \in {"parse_llm_response", "parse"}
    /\ unit.text.shape = "object"
    /\ unit.text.cut # None

\* the names and amounts a parser recovered, in order
Recovered ==
    IF unit.out[1] = None THEN << >>
    ELSE IF unit.fn = "parse"
    THEN [k \in DOMAIN unit.out[1][1].items |->
            <<unit.out[1][1].items[k].name, unit.out[1][1].items[k].amount.v>>]
    ELSE [k \in DOMAIN unit.out[1][1].bill_items |->
            <<unit.out[1][1].bill_items[k].item_name, unit.out[1][1].bill_items[k].item_amount>>]

\* the names and amounts of the complete items of the text
Complete ==
    [k \in DOMAIN unit.text.pages[1].items |->
        <<unit.text.pages[1].items[k].name, unit.text.pages[1].items[k].amount.v>>]

CutReadable ==
    LET c == unit.text.cut[1]
    IN  /\ c.stage = "amt"
        /\ Strip(c.name) # << >>
        /\ PyFloat(c.digits) # None
        /\ PyFloat(c.digits)[1] > 0
        /\ unit.fn = "parse" => IsDigit(Head(c.digits))

C5_Idempotent ==
    /\ unit.fn = "_clean_name" => _clean_name(unit.out[1]) = unit.out[1]
    /\ unit.fn = "clean_item_name" /\ ~unit.out[1].raised =>
            clean_item_name(unit.out[1].val) = unit.out[1]

\* C6: no item whose name matches a skip-list keyword is among the items of
\* a page the extraction holds.
C6_NoSkipKeywordItem ==
    \A k \in DOMAIN HeldPages : \A i \in DOMAIN HeldPages[k].bill_items :
        ~MatchesSkipKeyword(HeldPages[k].bill_items[i].item_name)

\* C7: once the time since the start of the request exceeds the budget (the
\* request timeout, the only limit of the code, with no margin taken off), no
\* further call is submitted to the model.
C7_NoSubmissionPastBudget == [][elapsed > Deadline => calls' = calls]_vars

\* C8: a model call that never returns does not block the extraction: the
\* worker has a next step.
C8_HungCallDoesNotBlock == pc = "hung" => ENABLED WorkerNext

\* C9: no outcome of a page-level call leaves the document-level call as an
\* exception (only a document that cannot be opened raises); a finished
\* extraction has a result, and a page whose call failed has no page in it.
C9_PageFailuresContained ==
    /\ pc = "raised" => doc.kind = "unreadable"
    /\ pc = "done" =>
        /\ result # None
        /\ \A p \in DOMAIN status : status[p] = "failed" =>
              \A k \in DOMAIN result[1].pagewise_line_items :
                  result[1].pagewise_line_items[k].page_no # ToStr(p)

\* a finished extraction with a failed page and a page with items
C9_Witness ==
    /\ pc = "done"
    /\ \E p \in DOMAIN status : status[p] = "failed"
    /\ result # None
    /\ result[1].pagewise_line_items # << >>

\* C10: a malformed item in a complete response is dropped alone: the valid
\* items of its page are retained, and in a batch every page with valid items
\* is retained.
C10_MalformedItemDroppedAlone ==
    /\ unit.fn = "parse_llm_response" /\ unit.text.shape = "object" /\ unit.text.cut = None
       /\ CompleteItems(unit.text.pages[1].items) # << >> =>
            /\ unit.out[1] # None
            /\ \A i \in DOMAIN CompleteItems(unit.text.pages[1].items) :
                  \E j \in DOMAIN unit.out[1][1].bill_items :
                      unit.out[1][1].bill_items[j] = CompleteItems(unit.text.pages[1].items)[i]
    /\ unit.fn = "parse_batch_response" /\ unit.text.shape = "array" /\ unit.text.cut = None =>
            \A k \in DOMAIN unit.text.pages :
                CompleteItems(unit.text.pages[k].items) # << >> =>
                    \E j \in DOMAIN unit.out[1] : unit.out[1][j].page_no = unit.text.pages[k].page_no[1]

(***************************************************************************)
(* Properties of the sessions                                              *)
(***************************************************************************)
\* the two counters as get_token_usage would give them now
Counters == <<total_input_tokens, total_output_tokens>>

C12_SessionOwnsCounters ==
    \A w \in Workers : thread[w].pc = "returned" => Counters = thread[w].used

\* C13: no increment is lost: each counter holds at least everything that was
\* added to it since it was last reset.
C13_NoIncrementLost ==
    /\ total_input_tokens >= credited[1]
    /\ total_output_tokens >= credited[2]

\* C14: when a request returns, the counters hold, for every response a model
\* call of the request received, the counts the response reported or, where it
\* reported none, the estimate; for the batch, the first single-page and the
\* retry call alike.
C14_EveryResponseAccounted ==
    \A w \in Workers : thread[w].pc = "returned" => Counters = thread[w].due

\* the attempt of thread w ends in this step with an error of the call
ErrorAttempt(w) == thread[w].pc = "call" /\ thread'[w] # thread[w] /\ thread'[w].resp = NoResponse
\* ... with an empty or unparsable answer
EmptyAttempt(w) ==
    thread[w].pc = "parse" /\ thread[w].resp.text = "nothing" /\ thread'[w] # thread[w]
\* ... with a blocked answer
BlockedAttempt(w) ==
    /\ thread[w].pc \in {"parse", "load_output"}
    /\ thread[w].resp.text = "blocked"
    /\ thread'[w].resp = NoResponse
\* the step leaves the thread about to call the model again for the same pages
FurtherAttempt(w) ==
    /\ thread'[w].pc = "call"
    /\ thread[w].call = "batch" \/ thread'[w].page = thread[w].page

\* C15: an attempt that ends empty or unparsable, and an attempt that ends with
\* an error, is followed by a further attempt for the page as long as fewer
\* than two attempts have been made for it.
C15_RetryWhileAttemptsRemain ==
    [][\A w \in Workers :
        ((ErrorAttempt(w) \/ EmptyAttempt(w)) /\ thread[w].attempts + 1 < 2) => FurtherAttempt(w)]_vars

\* where a thread stands: its step, its call and its page
Control(th) == <<th.pc, th.call, th.page>>

\* C16: an attempt whose answer was blocked goes on exactly as the same attempt
\* with an empty answer would (the same next step), and never raises out of
\* the request.
C16_BlockedLikeEmpty ==
    [][\A w \in Workers :
        BlockedAttempt(w) =>
            /\ Control(thread'[w]) = Control(Ends(thread[w], "nothing"))
            /\ thread'[w].pc # "raised"]_vars

(***************************************************************************)
(* Properties of the page numbers                                          *)
(***************************************************************************)
\* the pages of the result of the request
ResultPages == IF result = None THEN << >> ELSE result[1].pagewise_line_items

\* C17: the result of extract_from_pdf lists its pages in strictly ascending
\* order of page number, none twice, and lists no page without items,
\* whatever order and labels the answers of the model used.
C17_PagesAscendingNonEmpty ==
    doc.kind = "pdf" =>
        /\ \A j \in 1..Len(ResultPages) - 1 :
                NatOf(ResultPages[j].page_no) < NatOf(ResultPages[j + 1].page_no)
        /\ \A j \in 1..Len(ResultPages) : ResultPages[j].bill_items # << >>

\* C18: every page result that a batch of pages adds to the collected pages
\* carries the page number of one of the pages submitted in that batch.
C18_PageNoWasSubmitted ==
    [][\A j \in (Len(all_page_items) + 1)..Len(all_page_items') :
            \E p \in Range(Batch) : all_page_items'[j].page_no = ToStr(p)]_vars

(***************************************************************************)
(* Properties of the response parsers                                      *)
(***************************************************************************)
\* C19: JSONParser.parse and parse_llm_response never raise: applied to any
\* text (empty, prose, a list, a mapping whose items are no mappings, a text
\* cut short, a text nested deep) they give a structure or nothing.
C19_ParserNeverRaises ==
    unit.fn \in {"parse", "parse_llm_response"} => unit.out # << >>

\* what the five strategies of JSONParser give for a text, in their order
Strategies(text) ==
    << _try_direct_parse(text), _try_code_block_parse(text), _try_json_object_parse(text),
       _try_fixed_parse(text), _try_regex_extraction(text) >>
\* the result of the first of them that has one
FirstPassing(text) ==
    LET s == Strategies(text)
    IN  IF \A k \in DOMAIN s : s[k] = None THEN None
        ELSE s[CHOOSE k \in DOMAIN s : s[k] # None /\ \A j \in 1..(k - 1) : s[j] = None]

\* C20: JSONParser.parse gives what the first strategy that passes the
\* structural validation gives, in the order direct, code block, greedy
\* object, repair, regular expressions; for prose followed by a code block
\* that holds a valid structure this is the code-block strategy (the direct
\* parse fails), and the result is the structure of the block with exactly
\* its items.
C20_FirstPassingStrategy ==
    (unit.fn = "parse" /\ unit.out # << >> /\ unit.text.shape # "empty") =>
        /\ unit.out[1] = FirstPassing(unit.text)
        /\ (unit.text.shape = "fenced" /\ _validate_structure(unit.text.pages[1])) =>
                /\ _try_direct_parse(unit.text) = None
                /\ unit.out[1] = _try_code_block_parse(unit.text)
                /\ unit.out[1] = Some(unit.text.pages[1])

\* parse has recovered the two items of a code block after prose
C20_Witness ==
    /\ unit.fn = "parse"
    /\ unit.text.shape = "fenced"
    /\ Len(unit.text.pages[1].items) = 2
    /\ _validate_structure(unit.text.pages[1])
    /\ unit.out = <<Some(unit.text.pages[1])>>

\* C21: a parser gives nothing rather than a structure without items: every
\* result of JSONParser.parse and of parse_llm_response that is not null has
\* a non-empty bill_items list.
C21_NoResultWithoutItems ==
    (unit.fn \in {"parse", "parse_llm_response"} /\ unit.out # << >> /\ unit.out[1] # None) =>
        IF unit.fn = "parse" THEN unit.out[1][1].items # << >>
        ELSE unit.out[1][1].bill_items # << >>

\* C22: a document that cannot be fetched or opened aborts the whole
\* extraction: extract_from_url raises, nothing of a page list or a result is
\* kept, and the endpoint answers with the single failure response, never
\* with a success that carries data.
C22_FatalAbortsExtraction ==
    /\ doc.kind = "unreadable" =>
        /\ pc = "raised"
        /\ result = None
        /\ all_page_items = << >>
        /\ http \in {"waiting", "failure"}
    /\ http = "failure" => pc = "raised" /\ result = None

C22_Witness == doc.kind = "unreadable" /\ http = "failure"

\* the pages collected from the batches, as deduplicate_across_pages sees them
SummaryLike(page) == page.bill_items # << >> /\ IsSummaryPage(page)
HasBothKinds(pages) ==
    /\ \E k \in DOMAIN pages : SummaryLike(pages[k])
    /\ \E k \in DOMAIN pages : ~SummaryLike(pages[k])

\* C23: when the collected pages hold a summary-like page and a page that is
\* not summary-like, the final result is exactly the pages that are not
\* summary-like, in their original order, and each summary-like page is
\* relabelled 'Final Bill' by the call.
C23_DetailPagesPreferred ==
    (pc = "done" /\ doc.kind = "pdf" /\ HasBothKinds(all_page_items)) =>
        /\ result[1].pagewise_line_items = SelectSeq(all_page_items, LAMBDA p : ~SummaryLike(p))
        /\ \A k \in DOMAIN all_page_items : SummaryLike(all_page_items[k]) =>
              MarkSummary(all_page_items[k]).page_type = "Final Bill"

C23_Witness ==
    /\ pc = "done" /\ doc.kind = "pdf" /\ HasBothKinds(all_page_items)
    /\ Len(result[1].pagewise_line_items) >= 2
    /\ Len(result[1].pagewise_line_items) < Len(all_page_items)

\* a page of the output is a page of the input when number and items agree
SamePage(p, q) == p.page_no = q.page_no /\ p.bill_items = q.bill_items

RECURSIVE IsSubSequence(_, _)
IsSubSequence(a, b) ==
    IF a = << >> THEN TRUE
    ELSE IF b = << >> THEN FALSE
    ELSE IF SamePage(Head(a), Head(b)) THEN IsSubSequence(Tail(a), Tail(b))
    ELSE IsSubSequence(a, Tail(b))

\* C30: the deduplication invents no page and never loses the whole document:
\* its output is a sub-sequence of the collected pages, every page with its
\* bill_items unchanged, and it is not empty when a collected page has items.
C30_DedupKeepsInputPages ==
    (pc = "done" /\ doc.kind = "pdf") =>
        /\ IsSubSequence(result[1].pagewise_line_items, all_page_items)
        /\ (\E k \in DOMAIN all_page_items : all_page_items[k].bill_items # << >>) =>
              result[1].pagewise_line_items # << >>

C30_Witness ==
    /\ pc = "done" /\ doc.kind = "pdf" /\ Len(all_page_items) >= 2
    /\ \A k \in DOMAIN all_page_items : SummaryLike(all_page_items[k])
    /\ Len(result[1].pagewise_line_items) = Len(all_page_items)

\* C24: every item the validator retains has a cleaned item_name of at least
\* min_name_length characters.
C24_RetainedNameLength ==
    (unit.fn = "_validate_item" /\ unit.out[1] # None) =>
        Len(unit.out[1][1].item_name) >= min_name_length

\* a raw amount that is no number, null, zero or negative, as a number or as
\* a string with a sign or without a digit
NotPositive(amt) ==
    \/ amt.t \in {"null", "absent"}
    \/ amt.t = "num" /\ amt.v <= 0
    \/ amt.t = "str" /\ (FirstNumberRun(amt.s) = None \/ (amt.s # << >> /\ Head(amt.s) = "-"))

\* C25: the validator rejects every item whose raw amount is no number,
\* zero or negative: it retains no more items than the input has items
\* with a positive raw amount.
C25_NotPositiveRejected ==
    (unit.fn = "validate_and_clean" /\ ~unit.out[1].raised) =>
        Len(unit.out[1].val.bill_items)
            <= Cardinality({i \in DOMAIN unit.data.items : ~NotPositive(unit.data.items[i].amount)})

\* C26: the image the resize step returns has no side longer than the
\* configured target maximum, whatever the size of the input image, on the
\* upscaling branch too.
C26_ResizedWithinTarget ==
    unit.fn = "_smart_resize" =>
        Max(unit.out[1][1], unit.out[1][2]) <= unit.image.target_max_dim

\* C27: the truncation repair of a text whose brace or bracket counts are
\* unbalanced returns a text with as many '}' as '{' and as many ']' as '[',
\* which is the input with exactly the missing closers appended.
Unbalanced(text) ==
    Count(text, "{") # Count(text, "}") \/ Count(text, "[") # Count(text, "]")

C27_RepairBalances ==
    (unit.fn = "_fix_truncation" /\ Unbalanced(unit.name)) =>
        /\ ~Unbalanced(unit.out[1])
        /\ Len(unit.out[1]) >= Len(unit.name)
        /\ SubSeq(unit.out[1], 1, Len(unit.name)) = unit.name
        /\ \A i \in (Len(unit.name) + 1)..Len(unit.out[1]) : unit.out[1][i] \in {"]", "}"}

\* C28: the normalization of page types is the identity on the enumeration
\* and idempotent: validate_page_type returns each of the eight labels
\* unchanged, and returns the normalized value of any raw label unchanged.
C28_NormalizationIdempotent ==
    /\ \A label \in PageTypeValues : validate_page_type(label) = label
    /\ unit.fn = "validate_page_type" =>
        /\ unit.out[1] \in PageTypeValues
        /\ validate_page_type(unit.out[1]) = unit.out[1]

C28_Witness ==
    /\ unit.fn = "validate_page_type"
    /\ unit.name \notin PageTypeValues
    /\ unit.out[1] = LabelRoomCharges

\* the batches of the document: range(0, len(page_images), batch_size)
NumBatches == (Len(doc.pages) + batch_size - 1) \div batch_size

\* where the extraction stands: the batch, the page of the fallback loop, and
\* whether the next call is the batch call (0), the call for the page alone
\* (1) or its retry (2)
Rank == CASE pc = "batch" -> 0 [] pc = "single" -> 1 [] pc = "retry" -> 2 [] OTHER -> 3
Before(a, b) ==
    \/ a[1] < b[1]
    \/ a[1] = b[1] /\ a[2] < b[2]
    \/ a[1] = b[1] /\ a[2] = b[2] /\ a[3] < b[3]

\* one batch call for each batch, and two calls alone for each page at most
SentBound ==
    /\ calls <= (IF doc.kind = "pdf" THEN NumBatches ELSE 0) + 2 * Len(doc.pages)
    /\ (pc = "done" /\ doc.kind = "pdf") => calls >= NumBatches

\* a call is for the batch or the page where the extraction stands, and the
\* extraction then stands further on or has ended: no batch and no page is
\* taken up twice
StepAdvances ==
    (pc \in {"batch", "single", "retry"} /\ calls' # calls) =>
        /\ calls' = calls + 1
        /\ \/ pc' \in {"done", "hung"}
           \/ /\ pc' \in {"batch", "single", "retry"}
              /\ Before(<< batch_start, fb, Rank >>, << batch_start', fb', Rank' >>)
              /\ pc' = "batch" => batch_start' = batch_start + batch_size /\ fb' = 0
              /\ pc' = "retry" => pc = "single"

\* C29: the model calls of an extraction are bounded and the extraction ends
\* when every call returns or raises: every batch is sent once, and a page is
\* sent at most three times (in its batch, alone, and in the retry).
C29_CallsBounded == []SentBound /\ [][StepAdvances]_vars

C29_Witness ==
    /\ pc = "done" /\ doc.kind = "pdf" /\ Len(doc.pages) > batch_size
    /\ calls = NumBatches + 2 * Len(doc.pages)

=============================================================================
